---- MODULE Spec2Model ----
(***************************************************************************)
(* Model of src/mflux/info.py: format_metadata (the report formatter) and  *)
(* main (the invocation shell).                                            *)
(*                                                                         *)
(* A Python string is a sequence of atoms.  The characters of an input     *)
(* string are one-character atoms ("a", "/", "\n", "2", ...); a literal of *)
(* the source ("Prompt: ", "MFLUX Image Information") is one atom.  String *)
(* concatenation is \o, "=" * 60 is a sequence of 60 "=" atoms and         *)
(* "\n".join(lines) interleaves the atom "\n".  No sample input string     *)
(* spells a literal of the source.                                         *)
(*                                                                         *)
(* A Python value is a record tagged by k: "absent" (key not in the        *)
(* mapping), "none", "str", "num", "list" or "dict".  A number is kept in  *)
(* tenths, so that 0.8 and the default scale 1.0 are exact.                *)
(***************************************************************************)
EXTENDS Integers, Sequences, FiniteSets, TLC

\* ------------------------------------------------------------------ bounds
\* Largest number of keys present in the primary (exif) mapping.
MaxFields == 2

\* ------------------------------------------------------------ Python values
Absent == [k |-> "absent"]
None == [k |-> "none"]
Str(s) == [k |-> "str", s |-> s]
IntV(n) == [k |-> "num", isint |-> TRUE, tenths |-> n * 10]
FloatV(t) == [k |-> "num", isint |-> FALSE, tenths |-> t]
List(xs) == [k |-> "list", items |-> xs]

\* A presence test by "is not None": a number is present even when it is 0.
TruthyNotNone(v) ==
    CASE v.k = "absent" -> FALSE
      [] v.k = "none" -> FALSE
      [] v.k = "str" -> v.s # << >>
      [] v.k = "num" -> TRUE
      [] v.k = "list" -> v.items # << >>
      [] v.k = "dict" -> \E f \in DOMAIN v.d : v.d[f].k # "absent"

\* bool(v): None, 0, 0.0, "" and [] are falsy; a missing key reads as None.
Truthy(v) ==
    CASE v.k = "absent" -> FALSE
      [] v.k = "none" -> FALSE
      [] v.k = "str" -> v.s # << >>
      [] v.k = "num" -> v.tenths # 0
      [] v.k = "list" -> v.items # << >>
      [] v.k = "dict" -> \E f \in DOMAIN v.d : v.d[f].k # "absent"

\* ------------------------------------------------------------------ strings
DigitChar == [d \in 0..9 |->
    CASE d = 0 -> "0" [] d = 1 -> "1" [] d = 2 -> "2" [] d = 3 -> "3" [] d = 4 -> "4"
      [] d = 5 -> "5" [] d = 6 -> "6" [] d = 7 -> "7" [] d = 8 -> "8" [] d = 9 -> "9"]

IsDigit(c) == \E d \in 0..9 : DigitChar[d] = c

DigitVal(c) == CHOOSE d \in 0..9 : DigitChar[d] = c

\* Decimal digits of a natural number.
RECURSIVE Digits(_)
Digits(n) == IF n < 10 THEN <<DigitChar[n]>> ELSE Digits(n \div 10) \o <<DigitChar[n % 10]>>

\* Value of a sequence of digit characters.
RECURSIVE NumVal(_)
NumVal(s) == IF s = << >> THEN 0 ELSE 10 * NumVal(SubSeq(s, 1, Len(s) - 1)) + DigitVal(s[Len(s)])

\* repr() of a str: quoted, the newline escaped.
RECURSIVE Escaped(_)
Escaped(s) ==
    IF s = << >> THEN << >>
    ELSE (IF Head(s) = "\n" THEN <<"\\", "n">> ELSE <<Head(s)>>) \o Escaped(Tail(s))

\* str() / repr() of a number: an int in decimal, a float with its tenth digit.
NumText(v) ==
    IF v.isint THEN Digits(v.tenths \div 10)
    ELSE Digits(v.tenths \div 10) \o <<".">> \o <<DigitChar[v.tenths % 10]>>

RECURSIVE Repr(_)
RECURSIVE ReprItems(_)
Repr(v) ==
    CASE v.k = "none" -> <<"N", "o", "n", "e">>
      [] v.k = "str" -> <<"'">> \o Escaped(v.s) \o <<"'">>
      [] v.k = "num" -> NumText(v)
      [] v.k = "list" -> <<"[">> \o ReprItems(v.items) \o <<"]">>

ReprItems(xs) ==
    IF xs = << >> THEN << >>
    ELSE IF Len(xs) = 1 THEN Repr(xs[1])
    ELSE Repr(xs[1]) \o <<",", " ">> \o ReprItems(Tail(xs))

\* f"{v}": str(v).
StrOf(v) == IF v.k = "str" THEN v.s ELSE Repr(v)

\* f"{v:.2f}" of a number; a str raises ValueError, a list TypeError.
Fmt2f(v) == Digits(v.tenths \div 10) \o <<".">> \o <<DigitChar[v.tenths % 10], "0">>

\* "=" * 60
Rule == [i \in 1..60 |-> "="]

\* Path(s).name: the part after the last "/", trailing "/" ignored.
RECURSIVE StripSlashes(_)
StripSlashes(s) ==
    IF s # << >> /\ s[Len(s)] = "/" THEN StripSlashes(SubSeq(s, 1, Len(s) - 1)) ELSE s

Basename(s) ==
    LET t == StripSlashes(s)
        cut == {i \in 1..Len(t) : t[i] = "/"}
        last == IF cut = {} THEN 0 ELSE CHOOSE i \in cut : \A j \in cut : j <= i
    IN SubSeq(t, last + 1, Len(t))

\* "\n".join(ls)
RECURSIVE Join(_)
Join(ls) ==
    IF ls = << >> THEN << >>
    ELSE IF Len(ls) = 1 THEN ls[1]
    ELSE ls[1] \o <<"\n">> \o Join(Tail(ls))

\* s.split("\n"): the text lines of a string.
RECURSIVE SplitLines(_)
SplitLines(s) ==
    LET nl == {i \in 1..Len(s) : s[i] = "\n"}
    IN IF nl = {} THEN <<s>>
       ELSE LET i == CHOOSE x \in nl : \A y \in nl : x <= y
            IN <<SubSeq(s, 1, i - 1)>> \o SplitLines(SubSeq(s, i + 1, Len(s)))

\* ------------------------------------------------------- datetime.fromisoformat
DaysIn(y, m) ==
    IF m \in {4, 6, 9, 11} THEN 30
    ELSE IF m = 2 THEN (IF (y % 4 = 0 /\ y % 100 # 0) \/ y % 400 = 0 THEN 29 ELSE 28)
    ELSE 31

AllDigits(s) == \A i \in 1..Len(s) : IsDigit(s[i])

\* YYYY-MM-DD
IsoDateOk(s) ==
    /\ Len(s) = 10
    /\ s[5] = "-" /\ s[8] = "-"
    /\ AllDigits(SubSeq(s, 1, 4)) /\ AllDigits(SubSeq(s, 6, 7)) /\ AllDigits(SubSeq(s, 9, 10))
    /\ NumVal(SubSeq(s, 1, 4)) >= 1
    /\ NumVal(SubSeq(s, 6, 7)) \in 1..12
    /\ NumVal(SubSeq(s, 9, 10)) \in 1..DaysIn(NumVal(SubSeq(s, 1, 4)), NumVal(SubSeq(s, 6, 7)))

\* HH:MM:SS
IsoTimeOk(s) ==
    /\ Len(s) = 8
    /\ s[3] = ":" /\ s[6] = ":"
    /\ AllDigits(SubSeq(s, 1, 2)) /\ AllDigits(SubSeq(s, 4, 5)) /\ AllDigits(SubSeq(s, 7, 8))
    /\ NumVal(SubSeq(s, 1, 2)) < 24
    /\ NumVal(SubSeq(s, 4, 5)) < 60
    /\ NumVal(SubSeq(s, 7, 8)) < 60

\* The two shapes of timestamp the sample inputs use: a date, or a date, one
\* separator character and a time to the second.
IsoParses(s) ==
    \/ IsoDateOk(s)
    \/ Len(s) = 19 /\ IsoDateOk(SubSeq(s, 1, 10)) /\ IsoTimeOk(SubSeq(s, 12, 19))

\* dt.strftime('%Y-%m-%d %H:%M:%S') of the parsed timestamp (years 1000..9999).
IsoFormatted(s) ==
    SubSeq(s, 1, 10) \o <<" ">> \o
        (IF Len(s) = 19 THEN SubSeq(s, 12, 19) ELSE <<"0", "0", ":", "0", "0", ":", "0", "0">>)

\* ------------------------------------------------------------ the mapping
Fields == {"prompt", "negative_prompt", "model", "width", "height", "seed", "steps",
           "guidance", "quantize", "precision", "lora_paths", "lora_scales",
           "image_path", "image_strength", "controlnet_image_path",
           "controlnet_strength", "generation_time_seconds", "created_at",
           "mflux_version"}

\* A key the formatter never reads.
OtherKey == "other_key"

Keys == Fields \cup {OtherKey}

Dict(d) == [k |-> "dict", d |-> d]

\* exif.get(f): None when the key is missing.
Get(exif, f) == exif.d[f]

\* ------------------------------------------------------- format_metadata
\* The outcome of a block of statements: the lines it appended, or the
\* exception it raised.
Ok(ls) == [exc |-> "none", lines |-> ls]

Raise(e) == [exc |-> e, lines |-> << >>]

\* Sequential composition: the first exception ends the function.
Then(a, b) ==
    IF a.exc # "none" THEN a
    ELSE IF b.exc # "none" THEN b
    ELSE Ok(a.lines \o b.lines)

\* if v := exif.get(f): lines.append(f"{label}{v}{suffix}")
Line(exif, f, label, suffix) ==
    IF Truthy(Get(exif, f)) THEN <<label \o StrOf(Get(exif, f)) \o suffix>> ELSE << >>

Header == Ok(<<Rule, <<"MFLUX Image Information">>, Rule>>)

PromptSection(exif) ==
    Ok(Line(exif, "prompt", <<"\n", "Prompt: ">>, << >>)
       \o Line(exif, "negative_prompt", <<"Negative Prompt: ">>, << >>))

ModelSection(exif) ==
    Ok(<<<< >>>>
       \o Line(exif, "model", <<"Model: ">>, << >>)
       \o Line(exif, "width", <<"Width: ">>, << >>)
       \o Line(exif, "height", <<"Height: ">>, << >>))

\* The separator of the generation parameters emitted only with a parameter.
ParamSectionLazy(exif) ==
    LET ls == Line(exif, "seed", <<"Seed: ">>, << >>)
              \o Line(exif, "steps", <<"Steps: ">>, << >>)
              \o Line(exif, "guidance", <<"Guidance: ">>, << >>)
              \o Line(exif, "quantize", <<"Quantization: ">>, <<"-bit">>)
              \o Line(exif, "precision", <<"Precision: ">>, << >>)
    IN Ok(IF ls = << >> THEN << >> ELSE <<<< >>>> \o ls)

ParamSection(exif) ==
    Ok(<<<< >>>>
       \o Line(exif, "seed", <<"Seed: ">>, << >>)
       \o Line(exif, "steps", <<"Steps: ">>, << >>)
       \o Line(exif, "guidance", <<"Guidance: ">>, << >>)
       \o Line(exif, "quantize", <<"Quantization: ">>, <<"-bit">>)
       \o Line(exif, "precision", <<"Precision: ">>, << >>))

\* len(v) of a str or a list; a number has no len().
HasLen(v) == v.k \in {"str", "list"}

PyLen(v) == IF v.k = "str" THEN Len(v.s) ELSE Len(v.items)

\* v[i], 1-based here: a character of a str, an item of a list.
Item(v, i) == IF v.k = "str" THEN Str(<<v.s[i]>>) ELSE v.items[i]

\* scale = lora_scales[i] if i < len(lora_scales) else 1.0
ScaleAt(scales, i) == IF i <= PyLen(scales) THEN Item(scales, i) ELSE FloatV(10)

LoraEntry(paths, scales, i) ==
    <<"  - ">> \o Basename(Item(paths, i).s) \o <<" (scale: ">> \o StrOf(ScaleAt(scales, i)) \o <<")">>

LoraSection(exif) ==
    LET paths == Get(exif, "lora_paths")
        scales == IF Truthy(Get(exif, "lora_scales")) THEN Get(exif, "lora_scales") ELSE List(<< >>)
    IN IF ~Truthy(paths) THEN Ok(<< >>)
       ELSE IF ~HasLen(paths) THEN Raise("TypeError")
       ELSE IF ~HasLen(scales) THEN Raise("TypeError")
       ELSE IF \E i \in 1..PyLen(paths) : Item(paths, i).k # "str" THEN Raise("TypeError")
       ELSE Ok(<<<< >>, <<"LoRAs (">> \o Digits(PyLen(paths)) \o <<"):">>>>
               \o [i \in 1..PyLen(paths) |-> LoraEntry(paths, scales, i)])

\* A blank line, the basename of the path, and the strength when present.
PathSection(exif, pathField, pathLabel, strengthField, strengthLabel) ==
    LET path == Get(exif, pathField)
    IN IF ~Truthy(path) THEN Ok(<< >>)
       ELSE IF path.k # "str" THEN Raise("TypeError")
       ELSE Ok(<<<< >>, pathLabel \o Basename(path.s)>>
               \o Line(exif, strengthField, strengthLabel, << >>))

ImageSection(exif) ==
    PathSection(exif, "image_path", <<"Source Image: ">>,
                "image_strength", <<"Image Strength: ">>)

ControlNetSection(exif) ==
    PathSection(exif, "controlnet_image_path", <<"ControlNet Image: ">>,
                "controlnet_strength", <<"ControlNet Strength: ">>)

GenTimeLine(exif) ==
    LET t == Get(exif, "generation_time_seconds")
    IN IF ~Truthy(t) THEN Ok(<< >>)
       ELSE IF t.k = "str" THEN Raise("ValueError")
       ELSE IF t.k # "num" THEN Raise("TypeError")
       ELSE Ok(<<<<"Generation Time: ">> \o Fmt2f(t) \o <<"s">>>>)

\* try: datetime.fromisoformat(created_at) ... except (ValueError, AttributeError):
\* the TypeError that fromisoformat raises for a value that is not a str is
\* not among the exceptions caught.
CreatedLine(exif) ==
    LET c == Get(exif, "created_at")
    IN IF ~Truthy(c) THEN Ok(<< >>)
       ELSE IF c.k # "str" THEN Raise("TypeError")
       ELSE IF IsoParses(c.s) THEN Ok(<<<<"Created: ">> \o IsoFormatted(c.s)>>)
       ELSE Ok(<<<<"Created: ">> \o c.s>>)

GenSection(exif) ==
    Then(Ok(<<<< >>>>),
    Then(GenTimeLine(exif),
    Then(CreatedLine(exif),
         Ok(Line(exif, "mflux_version", <<"MFLUX Version: ">>, << >>)))))

Footer == Ok(<<Rule>>)

\* The list `lines` at the return statement, or the exception raised before.
ReportLines(exif) ==
    Then(Header,
    Then(PromptSection(exif),
    Then(ModelSection(exif),
    Then(ParamSection(exif),
    Then(LoraSection(exif),
    Then(ImageSection(exif),
    Then(ControlNetSection(exif),
    Then(GenSection(exif),
         Footer))))))))

\* A call's outcome: the string returned, or the exception raised.
Returned(s) == [exc |-> "none", value |-> s]

Raised(e) == [exc |-> e, value |-> << >>]

NoMetadataFound == <<"No metadata found">>

\* The early return taken only for a missing or null mapping, not an empty one.
format_metadata_EmptyRendered(metadata) ==
    IF metadata.exif.k \in {"absent", "none"} THEN Returned(NoMetadataFound)
    ELSE LET r == ReportLines(metadata.exif)
         IN IF r.exc # "none" THEN Raised(r.exc) ELSE Returned(Join(r.lines))

\* metadata.get("exif", {}) followed by `if not exif`.
format_metadata(metadata) ==
    IF ~Truthy(metadata.exif) THEN Returned(NoMetadataFound)
    ELSE LET r == ReportLines(metadata.exif)
         IN IF r.exc # "none" THEN Raised(r.exc) ELSE Returned(Join(r.lines))

\* ------------------------------------------------------------------- main
\* The process ends with status 1 by sys.exit(1) or by an exception that
\* nothing catches; it ends with status 0 when main returns.
MainOutcome(exists, metadata) ==
    IF ~exists THEN [status |-> 1, out |-> <<"Error: Image file not found: ">>, exc |-> "none"]
    ELSE IF \/ ~(\E key \in DOMAIN metadata : metadata[key].k # "absent")
            \/ (~Truthy(metadata.exif) /\ ~Truthy(metadata.xmp))
         THEN [status |-> 1, out |-> NoMetadataFound, exc |-> "none"]
    ELSE LET r == format_metadata(metadata)
         IN IF r.exc # "none" THEN [status |-> 1, out |-> << >>, exc |-> r.exc]
            ELSE [status |-> 0, out |-> r.value, exc |-> "none"]

\* ------------------------------------------------------------ sample inputs
PathA == <<"d", "/", "f">>
PathB == <<"c", "/", "e", "/", "g">>
IsoStamp == <<"2", "0", "2", "4", "-", "0", "3", "-", "0", "5", "T",
              "1", "0", ":", "1", "5", ":", "3", "0">>
TwoLines == <<"a", "\n">>

\* Values of a string, a number and a list, truthy and falsy, for every field.
CommonValues ==
    { None, Str(<< >>), Str(PathA), Str(TwoLines), IntV(0), IntV(5),
      List(<< >>), List(<<Str(PathA)>>) }

\* The values a field takes: the common ones, and those its own rendering
\* tells apart.
ValuesOf(f) ==
    CASE f = "created_at" -> CommonValues \cup {Str(IsoStamp)}
      [] f \in {"lora_paths", "lora_scales"} ->
            CommonValues \cup {List(<<Str(PathA), Str(PathB)>>), List(<<FloatV(8)>>),
                               List(<<FloatV(8), IntV(2)>>)}
      [] f = OtherKey -> {IntV(5)}
      [] OTHER -> CommonValues

\* The mapping with the keys of S, valued by g.
Mapping(S, g) == Dict([f \in Keys |-> IF f \in S THEN g[f] ELSE Absent])

\* The ways to give each key of S one of its values.
Valuations(S) ==
    {g \in [S -> UNION {ValuesOf(f) : f \in S}] : \A f \in S : g[f] \in ValuesOf(f)}

KeySets == {T \in SUBSET Keys : Cardinality(T) <= MaxFields}

\* What the reader returns for the secondary group: missing, empty or not.
XmpValues == { Absent, Dict([f \in {OtherKey} |-> Absent]), Dict([f \in {OtherKey} |-> IntV(5)]) }

\* ---------------------------------------------------------- state machine
VARIABLES
    metadata,    \* what MetadataReader.read_all_metadata returns for the image
    pc,          \* "ready", "formatted" (format_metadata was called), "exited" (main ran)
    result,      \* outcome of the call of format_metadata
    exists,      \* image_path.exists() as main saw it
    exit         \* outcome of main: exit status, text printed, exception

vars == <<metadata, pc, result, exists, exit>>

NoResult == [exc |-> "pending", value |-> << >>]

NoExit == [status |-> -1, out |-> << >>, exc |-> "none"]

Init ==
    /\ \E x \in XmpValues :
        \/ \E e \in {Absent, None} : metadata = [exif |-> e, xmp |-> x]
        \/ \E S \in KeySets : \E g \in Valuations(S) :
              metadata = [exif |-> Mapping(S, g), xmp |-> x]
    /\ pc = "ready"
    /\ result = NoResult
    /\ exists = TRUE
    /\ exit = NoExit

\* format_metadata(metadata), called directly.
Format ==
    /\ pc = "ready"
    /\ result' = format_metadata(metadata)
    /\ pc' = "formatted"
    /\ UNCHANGED <<metadata, exists, exit>>

\* main(), on an image path that exists or not.
Main ==
    /\ pc = "ready"
    /\ \E e \in BOOLEAN :
        /\ exists' = e
        /\ exit' = MainOutcome(e, metadata)
    /\ pc' = "exited"
    /\ UNCHANGED <<metadata, result>>

Next == Format \/ Main

Spec == Init /\ [][Next]_vars

\* ------------------------------------------------------ reading the output
\* A group (a mapping of the reader) that is missing, null or has no key.
GroupAbsent(g) ==
    \/ g.k \in {"absent", "none"}
    \/ g.k = "dict" /\ \A f \in DOMAIN g.d : g.d[f] = Absent

\* The literal that starts the line of a field.
LabelOf(f) ==
    CASE f = "prompt" -> "Prompt: "
      [] f = "negative_prompt" -> "Negative Prompt: "
      [] f = "model" -> "Model: "
      [] f = "width" -> "Width: "
      [] f = "height" -> "Height: "
      [] f = "seed" -> "Seed: "
      [] f = "steps" -> "Steps: "
      [] f = "guidance" -> "Guidance: "
      [] f = "quantize" -> "Quantization: "
      [] f = "precision" -> "Precision: "
      [] f = "lora_paths" -> "LoRAs ("
      [] f = "image_path" -> "Source Image: "
      [] f = "image_strength" -> "Image Strength: "
      [] f = "controlnet_image_path" -> "ControlNet Image: "
      [] f = "controlnet_strength" -> "ControlNet Strength: "
      [] f = "generation_time_seconds" -> "Generation Time: "
      [] f = "created_at" -> "Created: "
      [] f = "mflux_version" -> "MFLUX Version: "

\* The fields that have a line of their own.
LineFields == Fields \ {"lora_scales"}

ScalarFields == LineFields \ {"lora_paths", "image_path", "controlnet_image_path"}

\* The text lines of the returned string that start with the given literal.
LinesWith(r, label) ==
    LET ls == SplitLines(r.value)
    IN {i \in 1..Len(ls) : ls[i] # << >> /\ ls[i][1] = label}

HasLineOf(r, f) == LinesWith(r, LabelOf(f)) # {}

FalsyScalars == {None, Str(<< >>), IntV(0)}

\* The same metadata with the key f removed from the primary mapping.
Without(m, f) == [m EXCEPT !.exif.d[f] = Absent]

Title == <<"MFLUX Image Information">>

\* -------------------------------------------------------------------- C1
\* C1: when the primary mapping is missing, null or empty, format_metadata
\* returns exactly "No metadata found": no header, no footer, no other line.
C1_EmptyGivesNoMetadataFound ==
    (pc = "formatted" /\ GroupAbsent(metadata.exif)) => result = Returned(NoMetadataFound)

\* An empty primary mapping next to a secondary group that is present.
C1_Witness ==
    /\ pc = "formatted"
    /\ metadata.exif.k = "dict" /\ GroupAbsent(metadata.exif)
    /\ ~GroupAbsent(metadata.xmp)
    /\ result = Returned(NoMetadataFound)

\* -------------------------------------------------------------------- C6
\* C6: a scalar field whose value is 0, "" or null produces no line of that
\* field, as when the key is missing: the output has no line of the field,
\* and it is the output of the mapping without the key whenever that mapping
\* still has a key.
C6_FalsyIsAbsent ==
    (pc = "formatted" /\ metadata.exif.k = "dict") =>
        \A f \in ScalarFields :
            Get(metadata.exif, f) \in FalsyScalars =>
                /\ ~HasLineOf(result, f)
                /\ ~GroupAbsent(Without(metadata, f).exif) =>
                       result = format_metadata(Without(metadata, f))

\* steps = 0 and seed = 0 next to a model: a report without Steps: or Seed:.
C6_Witness ==
    /\ pc = "formatted"
    /\ metadata.exif.k = "dict"
    /\ Get(metadata.exif, "steps") = IntV(0)
    /\ Get(metadata.exif, "seed") = IntV(0)
    /\ result.exc = "none"
    /\ result.value # NoMetadataFound
    /\ ~HasLineOf(result, "steps") /\ ~HasLineOf(result, "seed")

\* -------------------------------------------------------------------- C9
\* The mapping holds the key model, with a non-empty value, and no other key.
OnlyModel(e) ==
    /\ e.k = "dict"
    /\ Truthy(Get(e, "model"))
    /\ \A f \in Keys \ {"model"} : Get(e, f) = Absent

\* C9: for a mapping that holds only model = X, X non-empty, the output is the
\* three header lines, a blank line, "Model: X", two blank lines and the
\* footer rule, and no line of any other field.
C9_OnlyModel ==
    (pc = "formatted" /\ OnlyModel(metadata.exif)) =>
        /\ result = Returned(Join(<<Rule, Title, Rule, << >>,
                                    <<"Model: ">> \o StrOf(Get(metadata.exif, "model")),
                                    << >>, << >>, Rule>>))
        /\ \A f \in LineFields \ {"model"} : ~HasLineOf(result, f)

C9_Witness ==
    /\ pc = "formatted"
    /\ OnlyModel(metadata.exif)
    /\ Get(metadata.exif, "model") = Str(PathA)
    /\ Cardinality(LinesWith(result, "Model: ")) = 1

\* -------------------------------------------------------------------- C4
\* C4: format_metadata is total: whatever the values of the fields (a string,
\* a number, a list or absent), the call returns a string and never raises.
C4_Total ==
    pc = "formatted" => result.exc = "none"

\* -------------------------------------------------------------------- C3
\* The text of the Created: line for a value c of created_at.
CreatedText(c) ==
    <<"Created: ">> \o (IF c.k = "str" /\ IsoParses(c.s) THEN IsoFormatted(c.s) ELSE StrOf(c))

\* The claim of C3 about an outcome r of the call.
CreatedRendered(r) ==
    LET ls == SplitLines(r.value)
        at == LinesWith(r, "Created: ")
    IN /\ Cardinality(at) = 1
       /\ \A i \in at : ls[i] = SplitLines(CreatedText(Get(metadata.exif, "created_at")))[1]
       /\ ls[Len(ls)] = Rule
       /\ Truthy(Get(metadata.exif, "mflux_version")) =>
              \E j \in LinesWith(r, "MFLUX Version: ") : \A i \in at : i < j

\* C3: for every present created_at, whether it parses, is a malformed string
\* or has the wrong type, the call does not raise and emits exactly one
\* Created: line (the timestamp as YYYY-MM-DD HH:MM:SS when it parses, the raw
\* value otherwise), followed by the version line and the footer.
C3_CreatedNeverRaises ==
    (pc = "formatted" /\ metadata.exif.k = "dict" /\ Truthy(Get(metadata.exif, "created_at"))) =>
        (result.exc = "none" /\ CreatedRendered(result))

\* What the code does keep of C3: a created_at that is a string never makes
\* the call raise, and whenever the call returns the line is as C3 says.
C3_HoldsForStrings ==
    (pc = "formatted" /\ metadata.exif.k = "dict" /\ Truthy(Get(metadata.exif, "created_at"))) =>
        /\ result.exc = "none" => CreatedRendered(result)
        /\ (Get(metadata.exif, "created_at").k = "str"
            /\ \A f \in Keys \ {"created_at"} : Get(metadata.exif, f) = Absent) =>
               result.exc = "none"

\* -------------------------------------------------------------------- C2
\* C2: main exits with status 1 exactly when the path does not exist or both
\* groups are absent, and with status 0 in every other case.
C2_ExitStatus ==
    pc = "exited" =>
        /\ exit.status \in {0, 1}
        /\ exit.status = 1 <=>
               (~exists \/ (GroupAbsent(metadata.exif) /\ GroupAbsent(metadata.xmp)))

\* What the code does keep of C2: the status is 0 or 1, it is 1 for a missing
\* path or two absent groups, and any other status 1 is an uncaught exception
\* of format_metadata.
C2_HoldsUnlessRaised ==
    pc = "exited" =>
        /\ exit.status \in {0, 1}
        /\ (~exists \/ (GroupAbsent(metadata.exif) /\ GroupAbsent(metadata.xmp))) =>
               (exit.status = 1 /\ exit.exc = "none")
        /\ (exists /\ ~(GroupAbsent(metadata.exif) /\ GroupAbsent(metadata.xmp))) =>
               (exit.status = 1 <=> exit.exc # "none")
        /\ (exists /\ GroupAbsent(metadata.exif) /\ ~GroupAbsent(metadata.xmp)) =>
               (exit.status = 0 /\ exit.out = NoMetadataFound)

\* -------------------------------------------------------------------- C5
\* The scale C5 gives the i-th entry.
ExpectedScale(scales, i) ==
    IF scales.k = "list" /\ i <= Len(scales.items) THEN scales.items[i] ELSE FloatV(10)

\* The claim of C5 about an outcome r, for the list paths and the scales.
LorasRendered(r, paths, scales) ==
    LET ls == SplitLines(r.value)
        n == Len(paths.items)
        at == LinesWith(r, "LoRAs (")
    IN /\ Cardinality(at) = 1
       /\ Cardinality(LinesWith(r, "  - ")) = n
       /\ \A j \in at :
            /\ ls[j] = <<"LoRAs (">> \o Digits(n) \o <<"):">>
            /\ j + n <= Len(ls)
            /\ \A i \in 1..n :
                 ls[j + i] = <<"  - ">> \o Basename(paths.items[i].s) \o <<" (scale: ">>
                                 \o StrOf(ExpectedScale(scales, i)) \o <<")">>

LoraListPresent ==
    /\ pc = "formatted"
    /\ metadata.exif.k = "dict"
    /\ Get(metadata.exif, "lora_paths").k = "list"
    /\ Get(metadata.exif, "lora_paths").items # << >>

\* C5: for a non-empty lora_paths of n entries the output has "LoRAs (n):"
\* followed by exactly n entry lines, in order, the i-th with the basename of
\* lora_paths[i] and the scale lora_scales[i], or 1.0 past the end of
\* lora_scales; no further scale is rendered.
C5_LoraLines ==
    LoraListPresent =>
        /\ result.exc = "none"
        /\ LorasRendered(result, Get(metadata.exif, "lora_paths"), Get(metadata.exif, "lora_scales"))

\* What the code does keep of C5: whenever the call returns and lora_scales is
\* a list or absent, the LoRA lines are as C5 says.
C5_HoldsWhenReturned ==
    (/\ LoraListPresent
     /\ result.exc = "none"
     /\ (Get(metadata.exif, "lora_scales").k = "list" \/ ~Truthy(Get(metadata.exif, "lora_scales")))) =>
        LorasRendered(result, Get(metadata.exif, "lora_paths"), Get(metadata.exif, "lora_scales"))

\* -------------------------------------------------------------------- C7
\* The value holds no newline character.
NoNewline(v) ==
    CASE v.k = "str" -> \A i \in 1..Len(v.s) : v.s[i] # "\n"
      [] v.k = "list" -> \A j \in 1..Len(v.items) :
                            v.items[j].k = "str" =>
                                \A i \in 1..Len(v.items[j].s) : v.items[j].s[i] # "\n"
      [] OTHER -> TRUE

\* Number of the fields of S that are present.
PresentIn(S) == Cardinality({f \in S : Truthy(Get(metadata.exif, f))})

BlankLines(r) ==
    LET ls == SplitLines(r.value) IN Cardinality({i \in 1..Len(ls) : ls[i] = << >>})

NonEmptyMapping ==
    /\ pc = "formatted"
    /\ metadata.exif.k = "dict"
    /\ ~GroupAbsent(metadata.exif)

\* C7: for a non-empty mapping whose values hold no newline, the output has 3
\* blank lines plus one for each of prompt, lora_paths, image_path and
\* controlnet_image_path that is present.
C7_BlankLines ==
    (NonEmptyMapping /\ \A f \in Keys : NoNewline(Get(metadata.exif, f))) =>
        /\ result.exc = "none"
        /\ BlankLines(result) =
              3 + PresentIn({"prompt", "lora_paths", "image_path", "controlnet_image_path"})

\* What the code does keep of C7: the count is right whenever the call returns.
C7_HoldsWhenReturned ==
    (/\ NonEmptyMapping
     /\ \A f \in Keys : NoNewline(Get(metadata.exif, f))
     /\ result.exc = "none") =>
        BlankLines(result) =
            3 + PresentIn({"prompt", "lora_paths", "image_path", "controlnet_image_path"})

\* -------------------------------------------------------------------- C8
FieldOrder ==
    <<"Prompt: ", "Negative Prompt: ", "Model: ", "Width: ", "Height: ", "Seed: ", "Steps: ",
      "Guidance: ", "Quantization: ", "Precision: ", "LoRAs (", "Source Image: ",
      "Image Strength: ", "ControlNet Image: ", "ControlNet Strength: ", "Generation Time: ",
      "Created: ", "MFLUX Version: ">>

\* The claim of C8 about an outcome r.
Framed(r) ==
    LET ls == SplitLines(r.value)
    IN /\ Len(ls) >= 4
       /\ ls[1] = Rule /\ ls[2] = Title /\ ls[3] = Rule
       /\ Len(Rule) = 60 /\ \A i \in 1..60 : Rule[i] = "="
       /\ ls[Len(ls)] = Rule
       /\ \A a, b \in 1..Len(FieldOrder) :
            \A i \in LinesWith(r, FieldOrder[a]) : \A j \in LinesWith(r, FieldOrder[b]) :
                i < j => a < b

\* C8: for a non-empty mapping the output starts with the three header lines,
\* ends with the rule of 60 "=", and its field lines come in the fixed order,
\* each at most once.
C8_FrameAndOrder ==
    NonEmptyMapping => (result.exc = "none" /\ Framed(result))

\* What the code does keep of C8: the frame and the order whenever the call
\* returns.
C8_HoldsWhenReturned ==
    (NonEmptyMapping /\ result.exc = "none") => Framed(result)

\* ------------------------------------------------------------------- C10
\* The claim of C10 about an outcome r.
Dependent(r) ==
    LET has(f) == Truthy(Get(metadata.exif, f))
    IN /\ HasLineOf(r, "image_strength") <=> (has("image_path") /\ has("image_strength"))
       /\ HasLineOf(r, "controlnet_strength") <=>
              (has("controlnet_image_path") /\ has("controlnet_strength"))
       /\ ~has("lora_paths") =>
              (~HasLineOf(r, "lora_paths") /\ LinesWith(r, "  - ") = {})
       /\ \A f \in LineFields \ {"image_strength", "controlnet_strength"} :
              HasLineOf(r, f) <=> has(f)

\* C10: Image Strength: is emitted iff image_path and image_strength are both
\* present, ControlNet Strength: iff controlnet_image_path and
\* controlnet_strength are, no LoRA line without lora_paths, and the line of
\* every other field iff that field is present.
C10_DependentFields ==
    NonEmptyMapping => Dependent(result)

\* What the code does keep of C10: the same whenever the call returns.
C10_HoldsWhenReturned ==
    (NonEmptyMapping /\ result.exc = "none") => Dependent(result)

====
